---- MODULE Spec2Model ----
(***************************************************************************)
(* Model of soprano.properties.nmr.efg: the EFG diagonalisation pipeline,  *)
(* its memoisation in the structure's info store, and the isotope          *)
(* resolution of EFGQuadrupolarConstant.                                   *)
(*                                                                         *)
(* Numbers are integers.  Quantities the code computes as quotients are    *)
(* kept as exact fractions [n, d] (Ratio); a zero denominator gives the    *)
(* numpy sentinels nan (0/0) and +-inf (x/0).  Tensors are 3x3 integer     *)
(* matrices whose symmetric part is diagonal, which is the class on which  *)
(* numpy.linalg.eigh is expressible with integers: its eigenvalues are the *)
(* diagonal in ascending order.                                            *)
(***************************************************************************)
EXTENDS Integers, Sequences, FiniteSets, TLC

VARIABLES
    nmr_data,   \* module global _nmr_data: [state, table]
    loads,      \* how many times the reference dataset load was attempted
    elems,      \* s.get_chemical_symbols()
    has_efg,    \* s.has('efg')
    efg,        \* s.get_array('efg'): one 3x3 tensor per atom
    info,       \* s.info, restricted to the efg_diagonal_* keys
    last        \* the last request: its parameters and its outcome

vars == <<nmr_data, loads, elems, has_efg, efg, info, last>>

-----------------------------------------------------------------------------
(* Bounds *)

MaxAtoms == 2
MaxEval == 2

-----------------------------------------------------------------------------
(* Small arithmetic helpers *)

Abs(x) == IF x < 0 THEN -x ELSE x

RECURSIVE Gcd(_, _)
Gcd(a, b) == IF b = 0 THEN a ELSE Gcd(b, a % b)

\* The value num/den as numpy's float division gives it, up to rounding:
\* an exact fraction in lowest terms, or nan (0/0), or +-inf (x/0).
Ratio(num, den) ==
    IF den = 0
    THEN [n |-> IF num = 0 THEN 0 ELSE IF num > 0 THEN 1 ELSE -1, d |-> 0]
    ELSE LET g == Gcd(Abs(num), Abs(den))
             s == IF den < 0 THEN -1 ELSE 1
         IN  [n |-> s * (num \div g), d |-> s * (den \div g)]

\* The orders of three indices.
Perms3 == { <<1, 2, 3>>, <<1, 3, 2>>, <<2, 1, 3>>, <<2, 3, 1>>, <<3, 1, 2>>, <<3, 2, 1>> }

-----------------------------------------------------------------------------
(* soprano/properties/nmr/utils.py *)

\* np.argsort(d) of one row: the index orders that sort d ascending.  The
\* default sort kind is not stable, so every order of tied entries is a
\* possible outcome.
ArgSorts(d) == { p \in Perms3 : d[p[1]] <= d[p[2]] /\ d[p[2]] <= d[p[3]] }

\* |evals - iso| for one row, scaled by 3 (iso = sum/3) to stay in integers.
Deviations(ev) ==
    LET sum == ev[1] + ev[2] + ev[3]
    IN  [i \in 1..3 |-> Abs(3 * ev[i] - sum)]

\* Fault variant: the argsort order is used as it is.
HaebPermute_Ascending(ev, p) == <<ev[p[1]], ev[p[2]], ev[p[3]]>>

\* The column permutation [1, 0, 2] applied to an argsort outcome.
HaebPermute(ev, p) == <<ev[p[2]], ev[p[1]], ev[p[3]]>>

\* _haeb_sort on one row: the possible results.
HaebSortRow(ev) == { HaebPermute(ev, p) : p \in ArgSorts(Deviations(ev)) }

\* _haeb_sort on the batch: one possible result per choice of row results.
HaebSort(evals) ==
    { h \in [1..Len(evals) -> UNION { HaebSortRow(evals[i]) : i \in 1..Len(evals) }] :
        \A i \in 1..Len(evals) : h[i] \in HaebSortRow(evals[i]) }

\* Fault variant: the sum of the first two entries is subtracted, not their mean.
Anisotropy_SumNotMean(h, reduced) ==
    IF reduced THEN Ratio(2 * (h[3] - h[1] - h[2]), 3)
               ELSE Ratio(h[3] - h[1] - h[2], 1)

\* _anisotropy on one row: (h[2] - (h[0]+h[1])/2) * f, f = 2/3 or 1.
Anisotropy(h, reduced) ==
    IF reduced THEN Ratio(2 * h[3] - h[1] - h[2], 3)
               ELSE Ratio(2 * h[3] - h[1] - h[2], 2)

\* _asymmetry on one row: (h[1] - h[0]) / _anisotropy(h, reduced=True).
Asymmetry(h) == Ratio(3 * (h[2] - h[1]), 2 * h[3] - h[1] - h[2])

Max3(ev) == CHOOSE x \in {ev[1], ev[2], ev[3]} : \A y \in {ev[1], ev[2], ev[3]} : y <= x
Min3(ev) == CHOOSE x \in {ev[1], ev[2], ev[3]} : \A y \in {ev[1], ev[2], ev[3]} : x <= y
Median3(ev) == ev[1] + ev[2] + ev[3] - Max3(ev) - Min3(ev)

\* _span on one row.
SpanOf(ev) == Ratio(Max3(ev) - Min3(ev), 1)

\* _skew on one row: 3*(median - average)/span.
SkewOf(ev) == Ratio(3 * Median3(ev) - (ev[1] + ev[2] + ev[3]), Max3(ev) - Min3(ev))

-----------------------------------------------------------------------------
(* Tensors and their diagonalisation *)

\* A tensor with diagonal d and an antisymmetric off-diagonal part a.
Tensor(d, a) == << <<d[1], a, 0>>, <<-a, d[2], 0>>, <<0, 0, d[3]>> >>

\* (efg + efg.T)/2.0
Symmetrize(m) ==
    << <<m[1][1], (m[1][2] + m[2][1]) \div 2, (m[1][3] + m[3][1]) \div 2>>,
       <<(m[2][1] + m[1][2]) \div 2, m[2][2], (m[2][3] + m[3][2]) \div 2>>,
       <<(m[3][1] + m[1][3]) \div 2, (m[3][2] + m[2][3]) \div 2, m[3][3]>> >>

\* The axis order that sorts the diagonal d ascending, ties in axis order.
EighOrder(d) ==
    CHOOSE p \in Perms3 :
        /\ d[p[1]] <= d[p[2]] /\ d[p[2]] <= d[p[3]]
        /\ (d[p[1]] = d[p[2]] => p[1] < p[2])
        /\ (d[p[2]] = d[p[3]] => p[2] < p[3])

\* np.linalg.eigh of a diagonal matrix: the eigenvalues ascending, and the
\* unit axis vectors (named by their axis) as eigenvectors.
Eigh(m) ==
    LET d == <<m[1][1], m[2][2], m[3][3]>>
        p == EighOrder(d)
    IN  [evals |-> <<d[p[1]], d[p[2]], d[p[3]]>>, evecs |-> p]

-----------------------------------------------------------------------------
(* The reference dataset and the request parameters *)

\* Python's None, where the code compares against it (a missing Q_iso, a
\* "no override" entry of isotope_list).  Isotope numbers are positive.
None == 0

Elements == {"H", "He", "Xx"}

\* A sample of data/nmrdata.json: element -> default isotope 'iso', most
\* quadrupolar isotope 'Q_iso' (or None), and one record per isotope, keyed
\* by the isotope number as a string, holding its quadrupole moment 'Q'.
NmrTable ==
    [e \in {"H", "He"} |->
        IF e = "H"
        THEN [iso |-> 1, Q_iso |-> 2,
              rec |-> [k \in {"1", "2"} |-> [Q |-> IF k = "1" THEN 0 ELSE 3]]]
        ELSE [iso |-> 3, Q_iso |-> None,
              rec |-> [k \in {"3"} |-> [Q |-> 7]]]]

NoTable == [e \in {} |-> None]

\* str(iso) for the isotope numbers in use.
Str(n) ==
    CASE n = 1 -> "1" [] n = 2 -> "2" [] n = 3 -> "3" [] n = 4 -> "4"
      [] OTHER -> "other"

\* Isotope numbers a caller passes in the isotopes mapping, and in
\* isotope_list.
UserIsos == {2, 3}
ListIsos == {3}

\* The isotopes parameter: a dict from element symbols to isotopes.
EmptyMap == [e \in {} |-> None]
IsoMaps(keys) == UNION { [D -> UserIsos] : D \in SUBSET keys }

\* The isotope_list parameter: None, or a list of isotopes and Nones.
NoList == [given |-> FALSE, items |-> <<>>]
SeqsOfLen(S, lo, hi) == UNION { [1..k -> S] : k \in lo..hi }
IsoLists(lo, hi) == {NoList} \cup { [given |-> TRUE, items |-> l] : l \in SeqsOfLen(ListIsos \cup {None}, lo, hi) }

\* The store keys: EFGDiagonal.default_name + suffix.
KeyEvals == "efg_diagonal_evals"
KeyHsort == "efg_diagonal_evals_hsort"
KeyEvecs == "efg_diagonal_evecs"
Keys == {KeyEvals, KeyHsort, KeyEvecs}

EmptyInfo == [k \in {} |-> <<>>]

\* s.info[k] = v
Put(inf, k, v) == [x \in (DOMAIN inf) \cup {k} |-> IF x = k THEN v ELSE inf[x]]

\* del s.info[k]
Del(inf, k) == [x \in (DOMAIN inf) \ {k} |-> inf[x]]

-----------------------------------------------------------------------------
(* soprano/properties/nmr/efg.py: the extract methods.  Each returns the     *)
(* outcome of one call: the error raised or "ok", the info store afterwards, *)
(* the number of diagonalisation passes run, the returned array, and (for   *)
(* the quadrupolar constant) the isotopes resolved atom by atom.  h, h2 are *)
(* the outcomes of _haeb_sort should a pass run.                           *)

Outcome(st, inf, n, res, isos) ==
    [status |-> st, info |-> inf, passes |-> n, result |-> res, isos |-> isos]

\* The eigenvalues of the whole batch, ascending per atom.
EfgDiag(arr) == [i \in 1..Len(arr) |-> Eigh(Symmetrize(arr[i]))]
DiagEvals(arr) == LET efg_diag == EfgDiag(arr) IN [i \in 1..Len(arr) |-> efg_diag[i].evals]
DiagEvecs(arr) == LET efg_diag == EfgDiag(arr) IN [i \in 1..Len(arr) |-> efg_diag[i].evecs]

\* Fault variant: the decorator lets every call through.
HasEfgCheck_Unchecked(has, inf, out) == out

\* _has_efg_check: the decorated method runs only if s.has('efg').
HasEfgCheck(has, inf, out) ==
    IF ~has THEN Outcome("MissingData", inf, 0, <<>>, <<>>) ELSE out

\* Fault variant: only the plain eigenvalues and the eigenvectors are stored.
EFGDiagonalBody_NoHsort(inf, arr, save_info, h) ==
    LET efg_evals == DiagEvals(arr)
        efg_evecs == DiagEvecs(arr)
        inf1 == IF save_info
                THEN Put(Put(inf, KeyEvals, efg_evals), KeyEvecs, efg_evecs)
                ELSE inf
    IN  Outcome("ok", inf1, 1,
                [i \in 1..Len(arr) |-> [evals |-> efg_evals[i], evecs |-> efg_evecs[i]]],
                <<>>)

\* EFGDiagonal.extract, after the decorator's check.
EFGDiagonalBody(inf, arr, save_info, h) ==
    LET efg_evals == DiagEvals(arr)
        efg_evecs == DiagEvecs(arr)
        inf1 == IF save_info
                THEN Put(Put(Put(inf, KeyEvals, efg_evals), KeyHsort, h), KeyEvecs, efg_evecs)
                ELSE inf
    IN  Outcome("ok", inf1, 1,
                [i \in 1..Len(arr) |-> [evals |-> efg_evals[i], evecs |-> efg_evecs[i]]],
                <<>>)

EFGDiagonal_extract(has, inf, arr, save_info, h) ==
    HasEfgCheck(has, inf, EFGDiagonalBody(inf, arr, save_info, h))

\* EFGDiagonal.default_params['save_info'], used by EFGDiagonal.get(s).
EFGDiagonal_default_save_info == TRUE

\* Fault variant: the entry is trusted only while it matches nothing, so
\* every request diagonalises.
NeedsDiag_Always(inf, key, force_recalc) == TRUE

\* The test "key not in s.info or force_recalc".
NeedsDiag(inf, key, force_recalc) == (key \notin DOMAIN inf) \/ force_recalc

\* if (key not in s.info) or force_recalc: EFGDiagonal.get(s)
Memoized(has, inf, arr, key, force_recalc, h) ==
    IF NeedsDiag(inf, key, force_recalc)
    THEN EFGDiagonal_extract(has, inf, arr, EFGDiagonal_default_save_info, h)
    ELSE Outcome("ok", inf, 0, <<>>, <<>>)

VzzOf(hrow) == Ratio(hrow[3], 1)
AnisoOf(hrow) == Anisotropy(hrow, FALSE)
RedAnisoOf(hrow) == Anisotropy(hrow, TRUE)

\* What class op computes from one row of the entry it reads.
QuantityOf(op, row) ==
    CASE op = "EFGVzz" -> VzzOf(row)
      [] op = "EFGAnisotropy" -> AnisoOf(row)
      [] op = "EFGReducedAnisotropy" -> RedAnisoOf(row)
      [] op = "EFGAsymmetry" -> Asymmetry(row)
      [] op = "EFGSpan" -> SpanOf(row)
      [] op = "EFGSkew" -> SkewOf(row)

\* The extract methods of the derived quantities have one shape: test key,
\* diagonalise if needed, read the entry under key and map the class's
\* formula over the atoms.
Derived(op, has, inf, arr, key, force_recalc, h) ==
    HasEfgCheck(has, inf,
        LET m == Memoized(has, inf, arr, key, force_recalc, h)
        IN  IF m.status # "ok" THEN m
            ELSE IF key \notin DOMAIN m.info
            THEN Outcome("KeyError", m.info, m.passes, <<>>, <<>>)
            ELSE LET efg_evals == m.info[key]
                 IN  Outcome("ok", m.info, m.passes,
                             [i \in 1..Len(efg_evals) |-> QuantityOf(op, efg_evals[i])], <<>>))

EFGVzz_extract(has, inf, arr, force_recalc, h) ==
    Derived("EFGVzz", has, inf, arr, KeyHsort, force_recalc, h)

EFGAnisotropy_extract(has, inf, arr, force_recalc, h) ==
    Derived("EFGAnisotropy", has, inf, arr, KeyHsort, force_recalc, h)

EFGReducedAnisotropy_extract(has, inf, arr, force_recalc, h) ==
    Derived("EFGReducedAnisotropy", has, inf, arr, KeyHsort, force_recalc, h)

EFGAsymmetry_extract(has, inf, arr, force_recalc, h) ==
    Derived("EFGAsymmetry", has, inf, arr, KeyHsort, force_recalc, h)

EFGSpan_extract(has, inf, arr, force_recalc, h) ==
    Derived("EFGSpan", has, inf, arr, KeyEvals, force_recalc, h)

EFGSkew_extract(has, inf, arr, force_recalc, h) ==
    Derived("EFGSkew", has, inf, arr, KeyEvals, force_recalc, h)

-----------------------------------------------------------------------------
(* EFGQuadrupolarConstant.extract *)

\* Fault variant: the list is used whatever its length.
ValidIsotopeList_Unchecked(isotope_list, n) == isotope_list

\* "Is isotope list valid?": a list of the wrong length is replaced by None.
ValidIsotopeList(isotope_list, n) ==
    IF isotope_list.given /\ Len(isotope_list.items) # n THEN NoList ELSE isotope_list

\* Fault variant: Q_iso is tried before the isotopes mapping.
ResolveIso_QFirst(e, i, table, use_q_isotopes, isotopes, isotope_list) ==
    IF use_q_isotopes /\ table[e].Q_iso # None THEN table[e].Q_iso
    ELSE IF e \in DOMAIN isotopes THEN isotopes[e]
    ELSE table[e].iso

\* The isotope chosen for atom i of element e by the if / if-elif-else chain.
\* The first "if" assigns the list entry; the second statement then assigns
\* iso again in every one of its three branches.
ResolveIso(e, i, table, use_q_isotopes, isotopes, isotope_list) ==
    LET iso_1 == IF isotope_list.given /\ isotope_list.items[i] # None
                 THEN isotope_list.items[i]
                 ELSE None
        iso_2 == IF e \in DOMAIN isotopes THEN isotopes[e]
                 ELSE IF use_q_isotopes /\ table[e].Q_iso # None THEN table[e].Q_iso
                 ELSE table[e].iso
    IN  iso_2

\* Fault variant: an atom of an unknown element is given a zero moment and
\* the loop goes on.
RECURSIVE QLoop_SkipUnknown(_, _, _, _, _, _, _, _)
QLoop_SkipUnknown(i, els, table, use_q_isotopes, isotopes, isotope_list, q, isos) ==
    IF i > Len(els) THEN [status |-> "ok", q_list |-> q, isos |-> isos]
    ELSE LET e == els[i] IN
         IF e \notin DOMAIN table
         THEN QLoop_SkipUnknown(i + 1, els, table, use_q_isotopes, isotopes,
                                isotope_list, Append(q, 0), Append(isos, None))
         ELSE LET iso == ResolveIso(e, i, table, use_q_isotopes, isotopes, isotope_list) IN
              IF Str(iso) \notin DOMAIN table[e].rec
              THEN [status |-> "UnsupportedIsotope", q_list |-> q, isos |-> Append(isos, iso)]
              ELSE QLoop_SkipUnknown(i + 1, els, table, use_q_isotopes, isotopes,
                                     isotope_list, Append(q, table[e].rec[Str(iso)].Q),
                                     Append(isos, iso))

\* The loop over the atoms, from atom i on: q holds q_list so far and isos
\* the isotopes resolved so far.
RECURSIVE QLoop(_, _, _, _, _, _, _, _)
QLoop(i, els, table, use_q_isotopes, isotopes, isotope_list, q, isos) ==
    IF i > Len(els) THEN [status |-> "ok", q_list |-> q, isos |-> isos]
    ELSE LET e == els[i] IN
         IF e \notin DOMAIN table
         THEN [status |-> "UnsupportedElement", q_list |-> q, isos |-> isos]
         ELSE IF isotope_list.given /\ i > Len(isotope_list.items)
         THEN [status |-> "IndexError", q_list |-> q, isos |-> isos]
         ELSE LET iso == ResolveIso(e, i, table, use_q_isotopes, isotopes, isotope_list) IN
              IF Str(iso) \notin DOMAIN table[e].rec
              THEN [status |-> "UnsupportedIsotope", q_list |-> q, isos |-> Append(isos, iso)]
              ELSE QLoop(i + 1, els, table, use_q_isotopes, isotopes, isotope_list,
                         Append(q, table[e].rec[Str(iso)].Q), Append(isos, iso))

\* Fault variant: the closing EFGVzz.get is handed the caller's force_recalc.
EFGVzz_passed_force_recalc(force_recalc) == force_recalc

\* The force_recalc that the closing EFGVzz.get(s) runs with: the default.
EFGVzz_default_force_recalc(force_recalc) == FALSE

\* k*q_list*EFGVzz.get(s), in units of the conversion constant k.
QTimesVzz(q_list, vzz) ==
    [i \in 1..Len(q_list) |-> Ratio(q_list[i] * vzz[i].n, vzz[i].d)]

\* Fault variant: the dataset is taken to be there.
DataIsNone_Never(data) == FALSE

\* The test "_nmr_data is None".
DataIsNone(data) == data.state # "loaded"

\* Fault variant: the dataset, element and isotope checks run first and the
\* tensors are diagonalised only once they have passed.
EFGQuadrupolarConstantBody_ChecksFirst(has, inf, arr, els, data, force_recalc, use_q_isotopes, isotopes, isotope_list, h, h2) ==
    IF DataIsNone(data)
    THEN Outcome("UnavailableData", inf, 0, <<>>, <<>>)
    ELSE LET il == ValidIsotopeList(isotope_list, Len(els))
             l == QLoop(1, els, data.table, use_q_isotopes, isotopes, il, <<>>, <<>>)
         IN  IF l.status # "ok"
             THEN Outcome(l.status, inf, 0, <<>>, l.isos)
             ELSE LET m == Memoized(has, inf, arr, KeyEvals, force_recalc, h) IN
                  IF m.status # "ok" THEN m
                  ELSE LET v == EFGVzz_extract(has, m.info, arr,
                                               EFGVzz_default_force_recalc(force_recalc), h2)
                       IN  IF v.status # "ok"
                           THEN Outcome(v.status, v.info, m.passes + v.passes, <<>>, l.isos)
                           ELSE Outcome("ok", v.info, m.passes + v.passes,
                                        QTimesVzz(l.q_list, v.result), l.isos)

\* EFGQuadrupolarConstant.extract, after the decorator's check: the cache test
\* and the diagonalisation, then the dataset test, the list test, the loop
\* over the atoms and the closing product with EFGVzz.get(s).
EFGQuadrupolarConstantBody(has, inf, arr, els, data, force_recalc, use_q_isotopes, isotopes, isotope_list, h, h2) ==
    LET m == Memoized(has, inf, arr, KeyEvals, force_recalc, h) IN
    IF m.status # "ok" THEN m
    ELSE IF DataIsNone(data)
    THEN Outcome("UnavailableData", m.info, m.passes, <<>>, <<>>)
    ELSE LET il == ValidIsotopeList(isotope_list, Len(els))
             l == QLoop(1, els, data.table, use_q_isotopes, isotopes, il, <<>>, <<>>)
         IN  IF l.status # "ok"
             THEN Outcome(l.status, m.info, m.passes, <<>>, l.isos)
             ELSE LET v == EFGVzz_extract(has, m.info, arr,
                                          EFGVzz_default_force_recalc(force_recalc), h2)
                  IN  IF v.status # "ok"
                      THEN Outcome(v.status, v.info, m.passes + v.passes, <<>>, l.isos)
                      ELSE Outcome("ok", v.info, m.passes + v.passes,
                                   QTimesVzz(l.q_list, v.result), l.isos)

EFGQuadrupolarConstant_extract(has, inf, arr, els, data, force_recalc, use_q_isotopes, isotopes, isotope_list, h, h2) ==
    HasEfgCheck(has, inf,
        EFGQuadrupolarConstantBody(has, inf, arr, els, data, force_recalc,
                                   use_q_isotopes, isotopes, isotope_list, h, h2))

-----------------------------------------------------------------------------
(* The state machine *)

NoReq ==
    [op |-> "none", force_recalc |-> FALSE, save_info |-> FALSE,
     use_q_isotopes |-> FALSE, isotopes |-> EmptyMap, isotope_list |-> NoList,
     status |-> "none", result |-> <<>>, passes |-> 0, isos |-> <<>>]

\* The tensors a structure of the cache specifications carries: an axially
\* symmetric one with antisymmetric noise, and one with three distinct
\* eigenvalues.
CacheTensors == { Tensor(<<1, -2, 1>>, 1), Tensor(<<3, -1, -2>>, 0) }

\* Every diagonal tensor with entries in -MaxEval..MaxEval.
AllTensors == { Tensor(d, 0) : d \in [1..3 -> (-MaxEval)..MaxEval] }

ElemSeqs(E) == UNION { [1..n -> E] : n \in 1..MaxAtoms }

Imported == nmr_data.state # "unloaded"

\* A request of class op with the given parameters returned or raised: the
\* store is as the call left it and the outcome is on record.
Respond(op, force_recalc, save_info, use_q_isotopes, isotopes, isotope_list, out) ==
    /\ info' = out.info
    /\ last' = [op |-> op, force_recalc |-> force_recalc, save_info |-> save_info,
                use_q_isotopes |-> use_q_isotopes, isotopes |-> isotopes,
                isotope_list |-> isotope_list, status |-> out.status,
                result |-> out.result, passes |-> out.passes, isos |-> out.isos]
    /\ UNCHANGED <<nmr_data, loads, elems, has_efg, efg>>

\* Importing soprano.properties.nmr.efg loads the reference dataset, once.
ImportModule ==
    /\ nmr_data.state = "unloaded"
    /\ \E ok \in BOOLEAN :
         nmr_data' = IF ok THEN [state |-> "loaded", table |-> NmrTable]
                           ELSE [state |-> "unavailable", table |-> NoTable]
    /\ loads' = loads + 1
    /\ UNCHANGED <<elems, has_efg, efg, info, last>>

\* The owner of the structure replaces its 'efg' array.
SetEfg(tensors) ==
    /\ \E arr \in [1..Len(elems) -> tensors] :
         /\ ~has_efg \/ arr # efg
         /\ efg' = arr
    /\ has_efg' = TRUE
    /\ last' = NoReq
    /\ UNCHANGED <<nmr_data, loads, elems, info>>

\* The owner of the structure removes its 'efg' array.
DelEfg ==
    /\ has_efg
    /\ has_efg' = FALSE
    /\ efg' = <<>>
    /\ last' = NoReq
    /\ UNCHANGED <<nmr_data, loads, elems, info>>

\* The owner of the structure deletes one entry of the info store.
DelInfo ==
    /\ \E k \in DOMAIN info : info' = Del(info, k)
    /\ last' = NoReq
    /\ UNCHANGED <<nmr_data, loads, elems, has_efg, efg>>

\* What _haeb_sort may return in a request that tests key: only a request
\* that can run a pass has a sort outcome to choose.
SortOutcomes(key, force_recalc) ==
    IF has_efg /\ NeedsDiag(info, key, force_recalc)
    THEN HaebSort(DiagEvals(efg)) ELSE {<<>>}

EFGDiagonalReq ==
    /\ Imported
    /\ \E save_info \in BOOLEAN, h \in SortOutcomes(KeyHsort, TRUE) :
         Respond("EFGDiagonal", FALSE, save_info, FALSE, EmptyMap, NoList,
                 EFGDiagonal_extract(has_efg, info, efg, save_info, h))

EFGVzzReq ==
    /\ Imported
    /\ \E force_recalc \in BOOLEAN :
       \E h \in SortOutcomes(KeyHsort, force_recalc) :
         Respond("EFGVzz", force_recalc, FALSE, FALSE, EmptyMap, NoList,
                 EFGVzz_extract(has_efg, info, efg, force_recalc, h))

EFGAnisotropyReq ==
    /\ Imported
    /\ \E force_recalc \in BOOLEAN :
       \E h \in SortOutcomes(KeyHsort, force_recalc) :
         Respond("EFGAnisotropy", force_recalc, FALSE, FALSE, EmptyMap, NoList,
                 EFGAnisotropy_extract(has_efg, info, efg, force_recalc, h))

EFGReducedAnisotropyReq ==
    /\ Imported
    /\ \E force_recalc \in BOOLEAN :
       \E h \in SortOutcomes(KeyHsort, force_recalc) :
         Respond("EFGReducedAnisotropy", force_recalc, FALSE, FALSE, EmptyMap, NoList,
                 EFGReducedAnisotropy_extract(has_efg, info, efg, force_recalc, h))

EFGAsymmetryReq ==
    /\ Imported
    /\ \E force_recalc \in BOOLEAN :
       \E h \in SortOutcomes(KeyHsort, force_recalc) :
         Respond("EFGAsymmetry", force_recalc, FALSE, FALSE, EmptyMap, NoList,
                 EFGAsymmetry_extract(has_efg, info, efg, force_recalc, h))

EFGSpanReq ==
    /\ Imported
    /\ \E force_recalc \in BOOLEAN :
       \E h \in SortOutcomes(KeyEvals, force_recalc) :
         Respond("EFGSpan", force_recalc, FALSE, FALSE, EmptyMap, NoList,
                 EFGSpan_extract(has_efg, info, efg, force_recalc, h))

EFGSkewReq ==
    /\ Imported
    /\ \E force_recalc \in BOOLEAN :
       \E h \in SortOutcomes(KeyEvals, force_recalc) :
         Respond("EFGSkew", force_recalc, FALSE, FALSE, EmptyMap, NoList,
                 EFGSkew_extract(has_efg, info, efg, force_recalc, h))

EFGQuadrupolarConstantReq(forces, uses, maps, lists) ==
    /\ Imported
    /\ \E force_recalc \in forces, use_q_isotopes \in uses,
          isotopes \in maps, isotope_list \in lists :
       \E h \in SortOutcomes(KeyEvals, force_recalc), h2 \in SortOutcomes(KeyHsort, FALSE) :
         Respond("EFGQuadrupolarConstant", force_recalc, FALSE, use_q_isotopes,
                 isotopes, isotope_list,
                 EFGQuadrupolarConstant_extract(has_efg, info, efg, elems, nmr_data,
                                                force_recalc, use_q_isotopes,
                                                isotopes, isotope_list, h, h2))

\* The parameters of the quadrupolar constant in the cache specifications
\* (their elements have no Q_iso, so use_q_isotopes is left unset there).
CacheElements == {"He", "Xx"}
CacheMaps == { EmptyMap, [e \in {"He"} |-> 2] }
CacheLists == { NoList }

InitCommon ==
    /\ nmr_data = [state |-> "unloaded", table |-> NoTable]
    /\ loads = 0
    /\ info = EmptyInfo
    /\ last = NoReq

\* A structure as loaded: any atoms, with or without an 'efg' array.
Init ==
    /\ InitCommon
    /\ elems \in ElemSeqs(CacheElements)
    /\ has_efg \in BOOLEAN
    /\ efg \in IF has_efg THEN [1..Len(elems) -> CacheTensors] ELSE {<<>>}

Requests ==
    \/ EFGDiagonalReq
    \/ EFGVzzReq
    \/ EFGAnisotropyReq
    \/ EFGReducedAnisotropyReq
    \/ EFGAsymmetryReq
    \/ EFGSpanReq
    \/ EFGSkewReq

\* The info store is written by the pipeline only.
Next ==
    \/ ImportModule
    \/ SetEfg(CacheTensors)
    \/ DelEfg
    \/ Requests
    \/ EFGQuadrupolarConstantReq(BOOLEAN, {FALSE}, CacheMaps, CacheLists)

Spec == Init /\ [][Next]_vars

\* The owner of the structure also deletes entries of the info store.
NextUser == Next \/ DelInfo

InitUser ==
    /\ InitCommon
    /\ elems \in ElemSeqs({"He"})
    /\ has_efg \in BOOLEAN
    /\ efg \in IF has_efg THEN [1..Len(elems) -> CacheTensors] ELSE {<<>>}

SpecUser == InitUser /\ [][NextUser]_vars

-----------------------------------------------------------------------------
(* Isotope resolution: one quadrupolar-constant request, with every          *)
(* combination of atoms, isotopes mapping and isotope_list (of the right     *)
(* length, one shorter or one longer).                                       *)

InitIso ==
    /\ InitCommon
    /\ elems \in ElemSeqs(Elements)
    /\ has_efg = TRUE
    /\ efg = [i \in 1..Len(elems) |-> Tensor(<<1, -2, 1>>, 1)]

FirstQuadrupolarConstantReq ==
    /\ last = NoReq
    /\ EFGQuadrupolarConstantReq({FALSE}, BOOLEAN, IsoMaps(Elements),
                                 IsoLists(Len(elems) - 1, Len(elems) + 1))

NextIso ==
    \/ ImportModule
    \/ FirstQuadrupolarConstantReq

SpecIso == InitIso /\ [][NextIso]_vars

-----------------------------------------------------------------------------
(* Haeberlen ordering: a one-atom structure with any diagonal tensor.        *)

InitHaeb ==
    /\ InitCommon
    /\ elems = <<"He">>
    /\ has_efg = TRUE
    /\ efg \in [1..1 -> AllTensors]

NextHaeb ==
    \/ ImportModule
    \/ EFGDiagonalReq
    \/ EFGVzzReq
    \/ EFGAnisotropyReq
    \/ EFGAsymmetryReq

SpecHaeb == InitHaeb /\ [][NextHaeb]_vars

-----------------------------------------------------------------------------
(* Properties *)

QClass == "EFGQuadrupolarConstant"

\* The classes that return a derived quantity, and the store key each tests
\* before it diagonalises.
DerivedClasses ==
    {"EFGVzz", "EFGAnisotropy", "EFGReducedAnisotropy", "EFGAsymmetry",
     "EFGSpan", "EFGSkew", QClass}

CheckedKey(op) ==
    IF op \in {"EFGSpan", "EFGSkew", QClass} THEN KeyEvals ELSE KeyHsort

\* C1 (as claimed): in a quadrupolar-constant request with an isotope_list of
\* the right length, every atom the loop resolved whose list entry is not None
\* was looked up with that list entry, whatever isotopes and use_q_isotopes.
C1_ListEntryUsed ==
    (last.op = QClass /\ last.isotope_list.given
        /\ Len(last.isotope_list.items) = Len(elems))
    => \A i \in 1..Len(last.isos) :
          last.isotope_list.items[i] # None => last.isos[i] = last.isotope_list.items[i]

\* C2 (as claimed): every derived-quantity request runs exactly one pass when
\* force_recalc is set or the entry it tests is absent, and none otherwise.
C2_OnePassWhenForcedOrAbsent ==
    [][ last'.op \in DerivedClasses =>
          last'.passes = IF last'.force_recalc \/ CheckedKey(last'.op) \notin DOMAIN info
                         THEN 1 ELSE 0 ]_vars

\* C2 (amended): on a structure that has an 'efg' array, every derived-quantity
\* request runs exactly one pass when force_recalc is set or the entry it tests
\* is absent, and none otherwise; on a structure without one it runs none; no
\* request runs more than one pass.
C2_OnePassIfEfg ==
    [][ last'.op \in DerivedClasses =>
          /\ last'.passes <= 1
          /\ last'.passes = IF has_efg /\ (last'.force_recalc
                                           \/ CheckedKey(last'.op) \notin DOMAIN info)
                            THEN 1 ELSE 0 ]_vars

\* A forced quadrupolar-constant request that returned, after one pass.
C2_Witness ==
    /\ last.op = QClass /\ last.status = "ok"
    /\ last.force_recalc /\ last.passes = 1

\* C3: the three entries are all present or all absent, and after a
\* derived-quantity request that diagonalised, all three are present and hold
\* the eigenvalues, their Haeberlen order and the eigenvectors of one pass.
\* Hence, with all three present, an unforced derived-quantity request runs
\* no pass, whichever key it tests.
C3_ThreeEntriesTogether ==
    /\ [](/\ DOMAIN info \in {{}, Keys}
          /\ (last.op \in DerivedClasses /\ last.passes > 0) =>
                /\ DOMAIN info = Keys
                /\ info[KeyEvals] = DiagEvals(efg)
                /\ info[KeyHsort] \in HaebSort(info[KeyEvals])
                /\ info[KeyEvecs] = DiagEvecs(efg))
    /\ [][ (last'.op \in DerivedClasses /\ DOMAIN info = Keys /\ ~last'.force_recalc)
             => last'.passes = 0 ]_vars

\* An EFGSpan request diagonalised and left all three entries.
C3_Witness ==
    /\ last.op = "EFGSpan" /\ last.passes = 1 /\ last.status = "ok"
    /\ DOMAIN info = Keys

\* C4: a request on a structure without an 'efg' array raises the missing-data
\* error, runs no pass, returns nothing and leaves the store as it was.
C4_MissingData ==
    [][ (~has_efg /\ last'.op # "none") =>
          /\ last'.status = "MissingData"
          /\ last'.passes = 0
          /\ last'.result = <<>>
          /\ info' = info ]_vars

\* A quadrupolar-constant request failed for missing data with the three
\* entries cached.
C4_Witness ==
    /\ ~has_efg /\ DOMAIN info = Keys
    /\ last.op = QClass /\ last.status = "MissingData"


\* The atoms whose element has no entry in the reference dataset.
UnknownAtoms == { i \in 1..Len(elems) : elems[i] \notin DOMAIN nmr_data.table }

\* Whether the dataset has a record of isotope iso for atom i's element.
HasRecord(i, iso) == Str(iso) \in DOMAIN nmr_data.table[elems[i]].rec

\* C5 (as claimed): with an atom of an unknown element anywhere, the request
\* raises the unsupported-element error and returns nothing.
C5_UnknownElementError ==
    (last.op = QClass /\ nmr_data.state = "loaded" /\ UnknownAtoms # {})
    => (last.status = "UnsupportedElement" /\ last.result = <<>>)

\* C5 (amended): on a structure with EFG data and an atom of an unknown
\* element anywhere, the request fails and returns nothing, whatever the
\* overrides.  The error is the unsupported-element error for the first such
\* atom j, unless an atom before j resolved to an isotope without a record:
\* then it is the unsupported-isotope error for that atom.
C5_UnknownElementFails ==
    (last.op = QClass /\ nmr_data.state = "loaded" /\ has_efg /\ UnknownAtoms # {})
    => LET j == CHOOSE x \in UnknownAtoms : \A y \in UnknownAtoms : x <= y
           n == Len(last.isos)
       IN  /\ last.result = <<>>
           /\ \/ /\ last.status = "UnsupportedElement"
                 /\ n = j - 1
                 /\ \A i \in 1..n : HasRecord(i, last.isos[i])
              \/ /\ last.status = "UnsupportedIsotope"
                 /\ n \in 1..(j - 1)
                 /\ ~HasRecord(n, last.isos[n])
                 /\ \A i \in 1..(n - 1) : HasRecord(i, last.isos[i])

\* The second of two atoms is of an unknown element and has both an isotopes
\* entry and an isotope_list entry; the request raised the element error.
C5_Witness ==
    /\ last.op = QClass /\ last.status = "UnsupportedElement"
    /\ Len(elems) = 2 /\ elems[1] = "H" /\ elems[2] = "Xx"
    /\ "Xx" \in DOMAIN last.isotopes
    /\ last.isotope_list.given /\ Len(last.isotope_list.items) = 2
    /\ last.isotope_list.items[2] # None

\* The isotope of atom i under the documented precedence: the list entry if
\* there is one, else the isotopes entry of the element, else Q_iso if
\* use_q_isotopes is set and there is one, else the default isotope.
DocumentedIso(i) ==
    LET e == elems[i]
        il == last.isotope_list
    IN  IF il.given /\ Len(il.items) = Len(elems) /\ il.items[i] # None
        THEN il.items[i]
        ELSE IF e \in DOMAIN last.isotopes THEN last.isotopes[e]
        ELSE IF last.use_q_isotopes /\ nmr_data.table[e].Q_iso # None
        THEN nmr_data.table[e].Q_iso
        ELSE nmr_data.table[e].iso

\* C6 (as claimed), for structures whose elements are all in the dataset: if
\* the isotope selected for some atom by the precedence layers has no record,
\* the request raises the unsupported-isotope error and returns nothing.
C6_UnsupportedIsotopeError ==
    (/\ last.op = QClass /\ nmr_data.state = "loaded" /\ has_efg
     /\ UnknownAtoms = {}
     /\ \E i \in 1..Len(elems) : ~HasRecord(i, DocumentedIso(i)))
    => (last.status = "UnsupportedIsotope" /\ last.result = <<>>)

\* C7 (as claimed): with the dataset unavailable, every quadrupolar-constant
\* request raises the unavailable-data error.
C7_AlwaysUnavailableError ==
    (nmr_data.state = "unavailable" /\ last.op = QClass)
    => last.status = "UnavailableData"

\* C7 (amended): with the dataset unavailable, every quadrupolar-constant
\* request on a structure with EFG data raises the unavailable-data error,
\* whatever its parameters (without EFG data it raises the missing-data
\* error); the load is attempted once, at import, and the dataset, available
\* or not, is never changed afterwards.
C7_UnavailableForGood ==
    /\ [](loads <= 1)
    /\ []((nmr_data.state = "unavailable" /\ last.op = QClass) =>
            /\ last.status = IF has_efg THEN "UnavailableData" ELSE "MissingData"
            /\ last.result = <<>>)
    /\ [][ nmr_data.state # "unloaded" => (nmr_data' = nmr_data /\ loads' = loads) ]_vars

\* A request with an isotopes mapping, forced, failed on the missing dataset.
C7_Witness ==
    /\ nmr_data.state = "unavailable" /\ loads = 1
    /\ last.op = QClass /\ last.status = "UnavailableData"
    /\ last.isotopes # EmptyMap /\ last.force_recalc


\* C8: a quadrupolar-constant request whose isotope_list has the wrong length
\* ends exactly as the same request with isotope_list=None does: the same
\* result or error, the same isotopes, the same passes and the same store.
C8_WrongLengthListIgnored ==
    [][ (/\ last'.op = QClass
         /\ last'.isotope_list.given
         /\ Len(last'.isotope_list.items) # Len(elems))
        => \E h \in SortOutcomes(KeyEvals, last'.force_recalc),
              h2 \in SortOutcomes(KeyHsort, FALSE) :
             LET o == EFGQuadrupolarConstant_extract(
                          has_efg, info, efg, elems, nmr_data, last'.force_recalc,
                          last'.use_q_isotopes, last'.isotopes, NoList, h, h2)
             IN  /\ o.status = last'.status
                 /\ o.result = last'.result
                 /\ o.isos = last'.isos
                 /\ o.passes = last'.passes
                 /\ o.info = info' ]_vars

\* A request on two atoms with a one-entry list naming an isotope returned.
C8_Witness ==
    /\ last.op = QClass /\ last.status = "ok"
    /\ Len(elems) = 2
    /\ last.isotope_list.given /\ Len(last.isotope_list.items) = 1
    /\ last.isotope_list.items[1] # None
    /\ last.isotopes # EmptyMap

\* r is a reordering of ev.
Reordering(r, ev) == \E p \in Perms3 : r = <<ev[p[1]], ev[p[2]], ev[p[3]]>>

\* C9: every stored Haeberlen triple r is a reordering of the stored
\* eigenvalues of its atom with |r[1]-iso| <= |r[0]-iso| <= |r[2]-iso|, and
\* what EFGVzz returns is an eigenvalue of maximal deviation from iso.
C9_HaeberlenOrder ==
    /\ KeyHsort \in DOMAIN info =>
          \A i \in 1..Len(info[KeyHsort]) :
             LET r == info[KeyHsort][i]
                 d == Deviations(r)
             IN  /\ Reordering(r, info[KeyEvals][i])
                 /\ d[2] <= d[1] /\ d[1] <= d[3]
    /\ (last.op = "EFGVzz" /\ last.status = "ok") =>
          \A i \in 1..Len(last.result) :
             LET ev == info[KeyEvals][i]
                 d == Deviations(ev)
             IN  \E k \in 1..3 :
                    /\ last.result[i] = Ratio(ev[k], 1)
                    /\ \A j \in 1..3 : d[j] <= d[k]

\* EFGVzz returned for eigenvalues whose two extremes deviate equally.
C9_Witness ==
    /\ last.op = "EFGVzz" /\ last.status = "ok"
    /\ info[KeyEvals][1] = <<-1, 0, 1>>

\* The store keys a class reads.
Reads(op) == IF op = QClass THEN {KeyEvals, KeyHsort} ELSE {CheckedKey(op)}

\* What request l returns when it is computed from the entries of store inf.
ComputedFrom(l, inf) ==
    IF l.op = QClass
    THEN [i \in 1..Len(elems) |->
            Ratio(nmr_data.table[elems[i]].rec[Str(l.isos[i])].Q * inf[KeyHsort][i][3], 1)]
    ELSE [i \in 1..Len(inf[CheckedKey(l.op)]) |-> QuantityOf(l.op, inf[CheckedKey(l.op)][i])]

\* The store holds the diagonalisation of the tensors arr.
HoldsDiagOf(inf, arr) ==
    /\ DOMAIN inf = Keys
    /\ inf[KeyEvals] = DiagEvals(arr)
    /\ inf[KeyHsort] \in HaebSort(DiagEvals(arr))
    /\ inf[KeyEvecs] = DiagEvecs(arr)

\* C10: on a structure with EFG data, an unforced derived-quantity request
\* that finds the entries it reads runs no pass, leaves the store alone and
\* returns what the stored eigenvalues give, whatever the tensors are now; a
\* request that is forced or finds the entry it tests absent runs one pass,
\* leaves the diagonalisation of the current tensors in the store and returns
\* what that gives; and a pass runs only if the request is forced or an entry
\* it reads is absent.
C10_NoInvalidation ==
    [][ (last'.op \in DerivedClasses /\ has_efg) =>
          /\ (~last'.force_recalc /\ Reads(last'.op) \subseteq DOMAIN info) =>
                /\ last'.passes = 0
                /\ info' = info
                /\ last'.status = "ok" => last'.result = ComputedFrom(last', info)
          /\ (last'.force_recalc \/ CheckedKey(last'.op) \notin DOMAIN info) =>
                /\ last'.passes = 1
                /\ HoldsDiagOf(info', efg)
                /\ last'.status = "ok" => last'.result = ComputedFrom(last', info')
          /\ last'.passes > 0 =>
                (last'.force_recalc \/ ~(Reads(last'.op) \subseteq DOMAIN info)) ]_vars

\* An unforced anisotropy request returned from entries that are not the
\* diagonalisation of the structure's tensors.
C10_Witness ==
    /\ has_efg
    /\ last.op = "EFGAnisotropy" /\ last.status = "ok"
    /\ ~last.force_recalc /\ last.passes = 0
    /\ info[KeyEvals] # DiagEvals(efg)
    /\ last.result = ComputedFrom(last, info)

\* Atom i has no per-atom override: there is no isotope_list, or it was
\* dropped for its length, or its entry for the atom is None.
NoListOverride(i) ==
    LET il == last.isotope_list
    IN  \/ ~il.given
        \/ Len(il.items) # Len(elems)
        \/ il.items[i] = None

\* The isotope of atom i by the per-element layers: the isotopes entry of
\* its element, else Q_iso if use_q_isotopes is set and Q_iso is not null,
\* else the default isotope.
LayeredIso(i) ==
    LET e == elems[i]
    IN  IF e \in DOMAIN last.isotopes THEN last.isotopes[e]
        ELSE IF last.use_q_isotopes /\ nmr_data.table[e].Q_iso # None
        THEN nmr_data.table[e].Q_iso
        ELSE nmr_data.table[e].iso

\* C11: in a quadrupolar-constant request, every atom the loop resolved that
\* has no per-atom override was looked up with isotopes[e] if e is in the
\* mapping, else with Q_iso if use_q_isotopes is set and Q_iso is not null,
\* else with the default isotope; and when the request returns, the constant
\* of such an atom is the moment of that isotope times the atom's Vzz.
C11_MappingThenQThenDefault ==
    (last.op = QClass) =>
       /\ \A i \in 1..Len(last.isos) :
             NoListOverride(i) => last.isos[i] = LayeredIso(i)
       /\ last.status = "ok" =>
             /\ Len(last.isos) = Len(elems)
             /\ \A i \in 1..Len(elems) :
                   NoListOverride(i) =>
                      last.result[i] =
                         Ratio(nmr_data.table[elems[i]].rec[Str(LayeredIso(i))].Q
                                  * info[KeyHsort][i][3], 1)

\* With use_q_isotopes set and no isotope_list, the first atom (He, no Q_iso)
\* was looked up with its default isotope and the second (H, Q_iso 2) with
\* its isotopes entry 3 rather than Q_iso.
C11_Witness ==
    /\ last.op = QClass /\ last.use_q_isotopes /\ ~last.isotope_list.given
    /\ elems = <<"He", "H">>
    /\ DOMAIN last.isotopes = {"H"} /\ last.isotopes["H"] = 3
    /\ last.isos = <<3, 3>>
    /\ nmr_data.table["H"].Q_iso = 2

\* The eigenvalues ev are (a, a, b) in some order with b # a; then a is the
\* repeated one and b the single one.
Axial(ev) == Max3(ev) # Min3(ev) /\ Median3(ev) \in {Max3(ev), Min3(ev)}
RepeatedOf(ev) == Median3(ev)
SingleOf(ev) == IF Median3(ev) = Min3(ev) THEN Max3(ev) ELSE Min3(ev)

\* C12: for an atom whose tensor has eigenvalues (a, a, b) with b # a, the
\* stored Haeberlen triple is (a, a, b) with b last, EFGAnisotropy returns
\* b - a and EFGAsymmetry returns 0.
C12_AxialTensor ==
    \A i \in 1..Len(efg) :
       LET ev == DiagEvals(efg)[i]
           a == RepeatedOf(ev)
           b == SingleOf(ev)
       IN  (has_efg /\ Axial(ev)) =>
              /\ KeyHsort \in DOMAIN info => info[KeyHsort][i] = <<a, a, b>>
              /\ last.op = "EFGAnisotropy" =>
                    (last.status = "ok" /\ last.result[i] = Ratio(b - a, 1))
              /\ last.op = "EFGAsymmetry" =>
                    (last.status = "ok" /\ last.result[i] = Ratio(0, 1))

\* EFGAnisotropy returned -3 for the tensor diag(1, -2, 1), whose Haeberlen
\* triple is stored as (1, 1, -2).
C12_Witness ==
    /\ efg = <<Tensor(<<1, -2, 1>>, 0)>>
    /\ last.op = "EFGAnisotropy" /\ last.status = "ok"
    /\ info[KeyHsort] = << <<1, 1, -2>> >>
    /\ last.result = <<Ratio(-3, 1)>>

\* The errors of the reference-dataset, element and isotope checks.
ReferenceErrors == {"UnavailableData", "UnsupportedElement", "UnsupportedIsotope"}

====
